---- MODULE Spec2Model ----
(***************************************************************************)
(* A model of FoodDeliverySystem (src/food_delivery.cpp): the route graph, *)
(* the Dijkstra search with path reconstruction, the pending queue, the    *)
(* completed stack, the order index and the menu loop that drives them.    *)
(***************************************************************************)
EXTENDS Integers, Sequences, FiniteSets, TLC

(***************************************************************************)
(* Inputs of the menu loop.  Location names are listed in the order        *)
(* std::string compares them ("A" < "B" < "Depot"), which is the order of  *)
(* iteration of std::map and the tie-break of the priority queue.          *)
(***************************************************************************)
NameOrder == <<"A", "B", "Depot">>

Names == {NameOrder[i] : i \in 1..Len(NameOrder)}

\* Distances typed at "Enter distance (km)": getIntInput accepts any int.
Distances == {-1, 0, 2}

\* Pairs typed at "Enter starting location" and "Enter ending location".
RouteInputs == {<<"Depot", "A">>, <<"A", "B">>}

\* Pairs typed at "Enter Restaurant Location" and "Enter Customer Destination".
OrderInputs == {<<"A", "B">>, <<"Depot", "A">>, <<"B", "B">>}

\* Prices typed at "Enter Order Price ($)".
Prices == {10}

\* At most MaxOrders orders are placed in one run.
MaxOrders == 2

\* <climits>
INT_MAX == 2147483647

\* The initializer of nextOrderId.
FirstOrderId == 1001

\* The depot of optimizeDeliveryRoute and of main's initial setup.
depot == "Depot"

VARIABLES
    deliveryGraph,    \* map<string, map<string, int>>
    incomingOrders,   \* queue<Order>, front first
    completedOrders,  \* stack<Order>, top last
    allOrders,        \* map<int, Order>
    nextOrderId,      \* int
    out,              \* what the last command wrote to cout
    prev              \* the queue and the stack as the last command found them

vars == <<deliveryGraph, incomingOrders, completedOrders, allOrders, nextOrderId, out, prev>>

\* The fields of FoodDeliverySystem.
system == <<deliveryGraph, incomingOrders, completedOrders, allOrders, nextOrderId>>

EmptyMap == [n \in {} |-> 0]

Rank(n) == CHOOSE i \in 1..Len(NameOrder) : NameOrder[i] = n

\* The keys of a map<string, ...> in iteration order.
SortedKeys(m) == SelectSeq(NameOrder, LAMBDA n : n \in DOMAIN m)

\* std::map::operator[] on the right of an assignment: a missing key reads 0.
At(m, k) == IF k \in DOMAIN m THEN m[k] ELSE 0

\* std::map::operator[] on the left of an assignment.
Put(m, k, v) == [x \in DOMAIN m \cup {k} |-> IF x = k THEN v ELSE m[x]]

\* greater<pair<int, string>>: the top of pq is the least pair.
PairLeq(p, q) == p[1] < q[1] \/ (p[1] = q[1] /\ Rank(p[2]) <= Rank(q[2]))

Top(pq) == CHOOSE p \in pq : \A q \in pq : PairLeq(p, q)

(***************************************************************************)
(* The relaxation loop over the edges of current.  A pair is pushed only   *)
(* when the distance of its location strictly decreases, so no pair is     *)
(* pushed twice and pq is modelled as a set.  Sums stay far from INT_MAX   *)
(* with the Distances above.                                               *)
(***************************************************************************)
\* A relaxation that compares and stores the weight of the edge alone.
RECURSIVE RelaxByWeightAlone(_, _, _)
RelaxByWeightAlone(current, edges, st) ==
    IF edges = <<>> THEN st
    ELSE LET neighbor == Head(edges)
             weight == deliveryGraph[current][neighbor]
             dcur == At(st.distances, current)
             shorter == dcur # INT_MAX /\ weight < At(st.distances, neighbor)
             st1 == IF shorter
                    THEN [st EXCEPT !.distances = Put(st.distances, neighbor, weight),
                                    !.predecessors = Put(st.predecessors, neighbor, current),
                                    !.pq = st.pq \cup {<<weight, neighbor>>}]
                    ELSE IF dcur # INT_MAX
                    THEN [st EXCEPT !.distances = Put(st.distances, neighbor, At(st.distances, neighbor))]
                    ELSE st
         IN RelaxByWeightAlone(current, Tail(edges), st1)

RECURSIVE Relax(_, _, _)
Relax(current, edges, st) ==
    IF edges = <<>> THEN st
    ELSE LET neighbor == Head(edges)
             weight == deliveryGraph[current][neighbor]
             dcur == At(st.distances, current)
             shorter == dcur # INT_MAX /\ dcur + weight < At(st.distances, neighbor)
             st1 == IF shorter
                    THEN [st EXCEPT !.distances = Put(st.distances, neighbor, dcur + weight),
                                    !.predecessors = Put(st.predecessors, neighbor, current),
                                    !.pq = st.pq \cup {<<dcur + weight, neighbor>>}]
                    ELSE IF dcur # INT_MAX
                    THEN [st EXCEPT !.distances = Put(st.distances, neighbor, At(st.distances, neighbor))]
                    ELSE st
         IN Relax(current, Tail(edges), st1)

\* while (!pq.empty())
RECURSIVE Frontier(_)
Frontier(st) ==
    IF st.pq = {} THEN st
    ELSE LET top == Top(st.pq)
             current == top[2]
             popped == [st EXCEPT !.pq = st.pq \ {top}]
         IN IF current \in st.visited THEN Frontier(popped)
            ELSE LET marked == [popped EXCEPT !.visited = popped.visited \cup {current}]
                 IN IF current \in DOMAIN deliveryGraph
                    THEN Frontier(Relax(current, SortedKeys(deliveryGraph[current]), marked))
                    ELSE Frontier(marked)

\* The search from start: distances, predecessors and visited when pq is empty.
Search(start) ==
    Frontier([distances |-> Put([n \in DOMAIN deliveryGraph |-> INT_MAX], start, 0),
              predecessors |-> EmptyMap,
              visited |-> {},
              pq |-> {<<0, start>>}])

(***************************************************************************)
(* while (predecessors.count(current)): every location the walk pushes has *)
(* a predecessor, so a walk that has pushed as many locations as have one  *)
(* and goes on is on a cycle of predecessor links and never ends.          *)
(***************************************************************************)
RECURSIVE WalkBack(_, _, _, _, _)
WalkBack(predecessors, start, current, path, fuel) ==
    IF current \notin DOMAIN predecessors THEN [returns |-> TRUE, path |-> path]
    ELSE IF fuel = 0 THEN [returns |-> FALSE, path |-> path]
    ELSE LET pushed == Append(path, current)
             before == predecessors[current]
         IN IF before = start
            THEN [returns |-> TRUE, path |-> Append(pushed, start)]
            ELSE WalkBack(predecessors, start, before, pushed, fuel - 1)

RECURSIVE Reverse(_)
Reverse(s) == IF s = <<>> THEN <<>> ELSE Append(Reverse(Tail(s)), Head(s))

\* findShortestPath: [returns |-> whether the call returns, path |-> its result]
FindShortestPath(start, end) ==
    IF start \notin DOMAIN deliveryGraph THEN [returns |-> TRUE, path |-> <<>>]
    ELSE LET st == Search(start)
         IN IF end \notin DOMAIN st.distances \/ st.distances[end] = INT_MAX
            THEN [returns |-> TRUE, path |-> <<>>]
            ELSE LET walk == WalkBack(st.predecessors, start, end, <<>>,
                                      Cardinality(DOMAIN st.predecessors))
                     path == Reverse(walk.path)
                 IN IF ~walk.returns THEN [returns |-> FALSE, path |-> <<>>]
                    ELSE IF path # <<>> /\ path[1] = start THEN [returns |-> TRUE, path |-> path]
                    ELSE [returns |-> TRUE, path |-> <<>>]

\* calculatePathDistance
RECURSIVE SumFrom(_, _, _)
SumFrom(path, i, totalDistance) ==
    IF i >= Len(path) THEN totalDistance
    ELSE IF path[i] \in DOMAIN deliveryGraph /\ path[i + 1] \in DOMAIN deliveryGraph[path[i]]
         THEN SumFrom(path, i + 1, totalDistance + deliveryGraph[path[i]][path[i + 1]])
         ELSE INT_MAX

CalculatePathDistance(path) == IF Len(path) < 2 THEN 0 ELSE SumFrom(path, 1, 0)

(***************************************************************************)
(* The commands.  Each sets out to what it writes to cout and prev to the  *)
(* queue and the stack it found.  A command whose call never returns       *)
(* leaves the menu loop stuck: no later command runs.                      *)
(***************************************************************************)
NoReturn == "<the call does not return>"

Running == out.msg # NoReturn

Snapshot == [incomingOrders |-> incomingOrders, completedOrders |-> completedOrders]

\* std::map::operator[] of deliveryGraph: a missing location is created with no routes.
Row(graph, name) == IF name \in DOMAIN graph THEN graph[name] ELSE EmptyMap

\* A front() that takes the newest order of the queue.
QueueBack(q) == q[Len(q)]

\* std::queue: front(), pop() and push().
QueueFront(q) == Head(q)

\* A pop() that leaves the queue as it is.
QueueKeep(q) == q

QueuePop(q) == Tail(q)

\* A push() that puts the order at the front of the queue.
QueuePushFront(q, order) == <<order>> \o q

QueuePush(q, order) == Append(q, order)

\* std::stack: top(), pop() and push().
StackTop(s) == s[Len(s)]

\* A pop() that was left out.
StackKeep(s) == s

StackPop(s) == SubSeq(s, 1, Len(s) - 1)

StackPush(s, order) == Append(s, order)

\* An addLocation without the test for a location that exists.
AddLocationResetting(name) ==
    /\ Running
    /\ deliveryGraph' = Put(deliveryGraph, name, EmptyMap)
    /\ out' = [msg |-> "Location added", name |-> name]
    /\ prev' = Snapshot
    /\ UNCHANGED <<incomingOrders, completedOrders, allOrders, nextOrderId>>

\* Feature 1
AddLocation(name) ==
    /\ Running
    /\ IF name \notin DOMAIN deliveryGraph
       THEN /\ deliveryGraph' = Put(deliveryGraph, name, EmptyMap)
            /\ out' = [msg |-> "Location added", name |-> name]
       ELSE /\ deliveryGraph' = deliveryGraph
            /\ out' = [msg |-> "Location already exists", name |-> name]
    /\ prev' = Snapshot
    /\ UNCHANGED <<incomingOrders, completedOrders, allOrders, nextOrderId>>

\* A test of addRoute that looks at start only.
OnlyStartExists(start, end) == start \in DOMAIN deliveryGraph

\* The test of addRoute.
RouteEndsExist(start, end) == start \in DOMAIN deliveryGraph /\ end \in DOMAIN deliveryGraph

\* An addRoute that stores the route from start to end only.
AddRouteOneWay(start, end, distance) ==
    /\ Running
    /\ IF RouteEndsExist(start, end)
       THEN /\ deliveryGraph' = Put(deliveryGraph, start, Put(Row(deliveryGraph, start), end, distance))
            /\ out' = [msg |-> "Route added", start |-> start, end |-> end, distance |-> distance]
       ELSE /\ deliveryGraph' = deliveryGraph
            /\ out' = [msg |-> "Error: One or both locations do not exist. Add them first."]
    /\ prev' = Snapshot
    /\ UNCHANGED <<incomingOrders, completedOrders, allOrders, nextOrderId>>

\* Feature 2
AddRoute(start, end, distance) ==
    /\ Running
    /\ IF RouteEndsExist(start, end)
       THEN /\ LET forth == Put(deliveryGraph, start, Put(Row(deliveryGraph, start), end, distance))
               IN deliveryGraph' = Put(forth, end, Put(Row(forth, end), start, distance))
            /\ out' = [msg |-> "Route added", start |-> start, end |-> end, distance |-> distance]
       ELSE /\ deliveryGraph' = deliveryGraph
            /\ out' = [msg |-> "Error: One or both locations do not exist. Add them first."]
    /\ prev' = Snapshot
    /\ UNCHANGED <<incomingOrders, completedOrders, allOrders, nextOrderId>>

\* A test of placeOrder that looks at the restaurant only.
OnlyRestaurantExists(restaurant, destination) == restaurant \in DOMAIN deliveryGraph

\* The test of placeOrder.
OrderEndsExist(restaurant, destination) ==
    restaurant \in DOMAIN deliveryGraph /\ destination \in DOMAIN deliveryGraph

\* A placeOrder that numbers the order by the length of the queue.
NewOrderNumberedByQueue(restaurant, destination, price) ==
    [id |-> FirstOrderId + Len(incomingOrders), restaurant |-> restaurant,
     destination |-> destination, price |-> price]

\* Order newOrder = {nextOrderId++, restaurant, destination, price}
NewOrder(restaurant, destination, price) ==
    [id |-> nextOrderId, restaurant |-> restaurant, destination |-> destination, price |-> price]

\* Feature 3
PlaceOrder(restaurant, destination, price) ==
    /\ Running
    /\ IF OrderEndsExist(restaurant, destination)
       THEN /\ nextOrderId < FirstOrderId + MaxOrders
            /\ LET newOrder == NewOrder(restaurant, destination, price)
               IN /\ nextOrderId' = nextOrderId + 1
                  /\ incomingOrders' = QueuePush(incomingOrders, newOrder)
                  /\ allOrders' = Put(allOrders, newOrder.id, newOrder)
                  /\ out' = [msg |-> "New Order Placed", id |-> newOrder.id,
                             restaurant |-> newOrder.restaurant,
                             destination |-> newOrder.destination]
       ELSE /\ out' = [msg |-> "Error: Restaurant or destination location does not exist in the map."]
            /\ UNCHANGED <<incomingOrders, allOrders, nextOrderId>>
    /\ prev' = Snapshot
    /\ UNCHANGED <<deliveryGraph, completedOrders>>

\* A processNextOrder without the return after "No pending orders": front() of the
\* empty queue yields some order, here one of zeros, which is then delivered.
ProcessNextOrderWithoutReturn ==
    /\ Running
    /\ LET orderToProcess == IF incomingOrders = <<>>
                             THEN [id |-> 0, restaurant |-> "", destination |-> "", price |-> 0]
                             ELSE QueueFront(incomingOrders)
       IN /\ incomingOrders' = IF incomingOrders = <<>> THEN <<>> ELSE QueuePop(incomingOrders)
          /\ completedOrders' = StackPush(completedOrders, orderToProcess)
          /\ out' = [msg |-> "delivered successfully", id |-> orderToProcess.id]
    /\ prev' = Snapshot
    /\ UNCHANGED <<deliveryGraph, allOrders, nextOrderId>>

\* Feature 4
ProcessNextOrder ==
    /\ Running
    /\ IF incomingOrders = <<>>
       THEN /\ out' = [msg |-> "No pending orders in the queue."]
            /\ UNCHANGED <<incomingOrders, completedOrders>>
       ELSE LET orderToProcess == QueueFront(incomingOrders)
            IN /\ incomingOrders' = QueuePop(incomingOrders)
               /\ completedOrders' = StackPush(completedOrders, orderToProcess)
               /\ out' = [msg |-> "delivered successfully", id |-> orderToProcess.id]
    /\ prev' = Snapshot
    /\ UNCHANGED <<deliveryGraph, allOrders, nextOrderId>>

\* A trackLastDelivery that takes the order it shows off the stack.
TrackLastDeliveryTaking ==
    /\ Running
    /\ IF completedOrders = <<>>
       THEN /\ out' = [msg |-> "No deliveries completed yet."]
            /\ completedOrders' = completedOrders
       ELSE LET lastOrder == StackTop(completedOrders)
            IN /\ out' = [msg |-> "Last Completed Delivery", id |-> lastOrder.id,
                          restaurant |-> lastOrder.restaurant,
                          destination |-> lastOrder.destination]
               /\ completedOrders' = StackPop(completedOrders)
    /\ prev' = Snapshot
    /\ UNCHANGED <<deliveryGraph, incomingOrders, allOrders, nextOrderId>>

\* Feature 5
TrackLastDelivery ==
    /\ Running
    /\ IF completedOrders = <<>>
       THEN out' = [msg |-> "No deliveries completed yet."]
       ELSE LET lastOrder == StackTop(completedOrders)
            IN out' = [msg |-> "Last Completed Delivery", id |-> lastOrder.id,
                       restaurant |-> lastOrder.restaurant,
                       destination |-> lastOrder.destination]
    /\ prev' = Snapshot
    /\ UNCHANGED system

\* Feature 6
ListPendingOrders ==
    /\ Running
    /\ IF incomingOrders = <<>>
       THEN out' = [msg |-> "The order queue is empty."]
       ELSE out' = [msg |-> "Pending Orders Queue", orders |-> incomingOrders]
    /\ prev' = Snapshot
    /\ UNCHANGED system

\* The line "Total Distance: ..." of one leg.
LegLine(distance) ==
    IF distance # INT_MAX THEN [text |-> "km", km |-> distance]
    ELSE [text |-> "N/A (Route not found)"]

\* The line of locations of one leg; <<>> when the line is not written.
LegPath(distance, path) == IF distance # INT_MAX /\ path # <<>> THEN path ELSE <<>>

\* The line "Total Estimated Delivery Distance: ...".
TotalLine(distance1, distance2) ==
    LET totalDistance == IF distance1 = INT_MAX \/ distance2 = INT_MAX
                         THEN -1 ELSE distance1 + distance2
    IN IF totalDistance # -1 THEN [text |-> "km", km |-> totalDistance]
       ELSE [text |-> "Cannot be calculated (Missing route)."]

\* What optimizeDeliveryRoute(orderId) writes.
OptimizeReport(orderId) ==
    IF orderId \notin DOMAIN allOrders THEN [msg |-> "Order ID not found", id |-> orderId]
    ELSE IF depot \notin DOMAIN deliveryGraph
    THEN [msg |-> "Error: 'Depot' location is missing for optimization."]
    ELSE LET order == allOrders[orderId]
             search1 == FindShortestPath(depot, order.restaurant)
             search2 == FindShortestPath(order.restaurant, order.destination)
             distance1 == CalculatePathDistance(search1.path)
             distance2 == CalculatePathDistance(search2.path)
         IN IF ~search1.returns \/ ~search2.returns THEN [msg |-> NoReturn]
            ELSE [msg |-> "Route Optimization", id |-> orderId,
                  line1 |-> LegLine(distance1), path1 |-> LegPath(distance1, search1.path),
                  line2 |-> LegLine(distance2), path2 |-> LegPath(distance2, search2.path),
                  total |-> TotalLine(distance1, distance2)]

\* Feature 7
OptimizeDeliveryRoute(orderId) ==
    /\ Running
    /\ out' = OptimizeReport(orderId)
    /\ prev' = Snapshot
    /\ UNCHANGED system

\* Feature 8
RevertLastDelivery ==
    /\ Running
    /\ IF completedOrders = <<>>
       THEN /\ out' = [msg |-> "No completed deliveries to revert."]
            /\ UNCHANGED <<incomingOrders, completedOrders>>
       ELSE LET revertedOrder == StackTop(completedOrders)
            IN /\ completedOrders' = StackPop(completedOrders)
               /\ incomingOrders' = QueuePush(incomingOrders, revertedOrder)
               /\ out' = [msg |-> "Reverted delivery", id |-> revertedOrder.id]
    /\ prev' = Snapshot
    /\ UNCHANGED <<deliveryGraph, allOrders, nextOrderId>>

\* Feature 9
SystemStatus ==
    /\ Running
    /\ out' = [msg |-> "System Status", pending |-> Len(incomingOrders),
               completed |-> Len(completedOrders), nextOrderId |-> nextOrderId,
               locations |-> DOMAIN deliveryGraph]
    /\ prev' = Snapshot
    /\ UNCHANGED system

\* Order ids typed at "Enter Order ID to optimize route for".
OrderIdInputs == (FirstOrderId - 1)..(FirstOrderId + MaxOrders)

\* main: the system after the initial setup has added the depot.
\* A start without the addLocation("Depot") of main.
InitWithoutDepot ==
    /\ deliveryGraph = EmptyMap
    /\ incomingOrders = <<>>
    /\ completedOrders = <<>>
    /\ allOrders = EmptyMap
    /\ nextOrderId = FirstOrderId
    /\ out = [msg |-> "Food Delivery System Menu"]
    /\ prev = [incomingOrders |-> <<>>, completedOrders |-> <<>>]

Init ==
    /\ deliveryGraph = Put(EmptyMap, depot, EmptyMap)
    /\ incomingOrders = <<>>
    /\ completedOrders = <<>>
    /\ allOrders = EmptyMap
    /\ nextOrderId = FirstOrderId
    /\ out = [msg |-> "Location added", name |-> depot]
    /\ prev = [incomingOrders |-> <<>>, completedOrders |-> <<>>]

\* main: one pass of the menu loop.
Next ==
    \/ \E name \in Names : AddLocation(name)
    \/ \E route \in RouteInputs, distance \in Distances : AddRoute(route[1], route[2], distance)
    \/ \E order \in OrderInputs, price \in Prices : PlaceOrder(order[1], order[2], price)
    \/ ProcessNextOrder
    \/ TrackLastDelivery
    \/ ListPendingOrders
    \/ \E orderId \in OrderIdInputs : OptimizeDeliveryRoute(orderId)
    \/ RevertLastDelivery
    \/ SystemStatus

Spec == Init /\ [][Next]_vars

(***************************************************************************)
(* The same program driven through the commands that build the map, place  *)
(* orders and ask for an optimized route, with every route between the     *)
(* three locations and four distances, so that two locations are joined by *)
(* a direct route and by a detour at once.                                 *)
(***************************************************************************)
GraphDistances == {-1, 0, 1, 3}

GraphRouteInputs == {<<"Depot", "A">>, <<"A", "B">>, <<"Depot", "B">>}

GraphOrderInputs == {<<"A", "B">>, <<"B", "A">>}

NextGraph ==
    \/ \E name \in Names : AddLocation(name)
    \/ \E r \in GraphRouteInputs, distance \in GraphDistances : AddRoute(r[1], r[2], distance)
    \/ \E o \in GraphOrderInputs, price \in Prices : PlaceOrder(o[1], o[2], price)
    \/ \E orderId \in OrderIdInputs : OptimizeDeliveryRoute(orderId)

SpecGraph == Init /\ [][NextGraph]_vars

(***************************************************************************)
(* Vocabulary of the properties, defined on the graph alone.               *)
(***************************************************************************)
\* The locations one route away from a location of the set.
Step(locations) ==
    locations \cup {b \in Names : \E a \in locations :
                        a \in DOMAIN deliveryGraph /\ b \in DOMAIN deliveryGraph[a]}

RECURSIVE Closure(_)
Closure(locations) == IF Step(locations) = locations THEN locations ELSE Closure(Step(locations))

\* There is a sequence of routes from a to b (of no route when a = b).
Reachable(a, b) == b \in Closure({a})

Range(s) == {s[i] : i \in 1..Len(s)}

CannotBeCalculated == "Cannot be calculated (Missing route)."

RouteNotFound == "N/A (Route not found)"

\* out is the report of optimizeDeliveryRoute for an order of the index.
Optimized == out.msg = "Route Optimization"

(***************************************************************************)
(* C1.  Whenever optimizeDeliveryRoute has reported on an order whose      *)
(* restaurant cannot be reached from the depot, or whose destination       *)
(* cannot be reached from its restaurant, the total it wrote is "Cannot be *)
(* calculated" and not a number of km.                                     *)
(***************************************************************************)
C1_UnreachableTotalNotNumeric ==
    Optimized =>
        LET order == allOrders[out.id]
        IN (~Reachable(depot, order.restaurant) \/ ~Reachable(order.restaurant, order.destination))
               => out.total.text = CannotBeCalculated

(***************************************************************************)
(* C2.  For every registered location a, findShortestPath(a, a) returns    *)
(* the one-element path <<a>>, and the distance of that path is 0.         *)
(***************************************************************************)
C2_PathToSelf ==
    \A a \in DOMAIN deliveryGraph :
        LET search == FindShortestPath(a, a)
        IN search.returns /\ search.path = <<a>> /\ CalculatePathDistance(search.path) = 0

(***************************************************************************)
(* C3.  Whenever optimizeDeliveryRoute has reported on an order, a leg     *)
(* with no sequence of routes between its ends is written as "Route not    *)
(* found" and never with a number of km.                                   *)
(***************************************************************************)
C3_UnreachableLegNotFound ==
    Optimized =>
        LET order == allOrders[out.id]
        IN /\ ~Reachable(depot, order.restaurant) => out.line1.text = RouteNotFound
           /\ ~Reachable(order.restaurant, order.destination) => out.line2.text = RouteNotFound

\* The ids of the orders of a queue or a stack, in its order.
Ids(s) == [i \in 1..Len(s) |-> s[i].id]

\* The number of orders placed so far: the index keeps every one of them.
Placed == Cardinality(DOMAIN allOrders)

(***************************************************************************)
(* C4.  The ids handed out so far are 1001, 1002, ... without a gap, each  *)
(* order of the index carries the id it is filed under, and nextOrderId is *)
(* the next of them.  A step changes nextOrderId only by placing an order: *)
(* the k-th order placed gets the id 1000 + k, which no earlier order has, *)
(* nextOrderId grows by exactly one and the orders already in the index    *)
(* keep their ids.  No other step, a refused placeOrder, processNextOrder  *)
(* and revertLastDelivery included, changes nextOrderId or the index.      *)
(***************************************************************************)
C4_IdsNow ==
    /\ nextOrderId = FirstOrderId + Placed
    /\ DOMAIN allOrders = FirstOrderId..(nextOrderId - 1)
    /\ \A id \in DOMAIN allOrders : allOrders[id].id = id

C4_IdsStep ==
    LET placing == \E order \in Names \X Names, price \in Prices :
                       /\ order[1] \in DOMAIN deliveryGraph /\ order[2] \in DOMAIN deliveryGraph
                       /\ PlaceOrder(order[1], order[2], price)
    IN IF placing
       THEN /\ nextOrderId' = nextOrderId + 1
            /\ incomingOrders'[Len(incomingOrders')].id = 1000 + (Placed + 1)
            /\ incomingOrders'[Len(incomingOrders')].id \notin DOMAIN allOrders
            /\ DOMAIN allOrders' = DOMAIN allOrders \cup {1000 + (Placed + 1)}
            /\ \A id \in DOMAIN allOrders : allOrders'[id] = allOrders[id]
            /\ \A i \in 1..Len(incomingOrders) :
                   incomingOrders'[Len(incomingOrders')].id > incomingOrders[i].id
       ELSE nextOrderId' = nextOrderId /\ allOrders' = allOrders

C4_OrderIds == []C4_IdsNow /\ [][C4_IdsStep]_vars

\* Two orders have been placed, one delivered and reverted, and the second id is 1002.
C4_Witness ==
    /\ nextOrderId = FirstOrderId + 2
    /\ out.msg = "Reverted delivery"
    /\ Ids(incomingOrders) = <<1002, 1001>>

(***************************************************************************)
(* C5.  A processNextOrder that finds the queue non-empty takes the order  *)
(* at its front, the one waiting longest: the others move up one place in  *)
(* the same order, and the order taken is put on top of the stack, whose   *)
(* other orders stay.  So no step puts an order on the stack that had an   *)
(* order ahead of it in the queue.                                         *)
(***************************************************************************)
C5_Step ==
    /\ (incomingOrders # <<>> /\ ProcessNextOrder) =>
           /\ Len(incomingOrders') = Len(incomingOrders) - 1
           /\ \A i \in 1..Len(incomingOrders') : incomingOrders'[i] = incomingOrders[i + 1]
           /\ Len(completedOrders') = Len(completedOrders) + 1
           /\ completedOrders'[Len(completedOrders')] = incomingOrders[1]
           /\ \A i \in 1..Len(completedOrders) : completedOrders'[i] = completedOrders[i]
    /\ \A j \in 2..Len(incomingOrders) : incomingOrders[j] \notin Range(completedOrders')

C5_ProcessNextTakesFront == [][C5_Step]_vars

\* processNextOrder has delivered the front of a queue of two: the order that was
\* reverted to the back earlier waits behind the order placed after it.
C5_Witness ==
    /\ out.msg = "delivered successfully"
    /\ Ids(prev.incomingOrders) = <<1002, 1001>>
    /\ out.id = 1002

(***************************************************************************)
(* C6.  A revertLastDelivery that finds the stack non-empty takes the      *)
(* order on its top and puts it, as it stands in the index, at the back of *)
(* the queue: the rest of the stack and the orders already in the queue    *)
(* stay as they are, and the index, nextOrderId and the graph are          *)
(* unchanged.                                                              *)
(***************************************************************************)
C6_Step ==
    (completedOrders # <<>> /\ RevertLastDelivery) =>
        /\ Len(completedOrders') = Len(completedOrders) - 1
        /\ \A i \in 1..Len(completedOrders') : completedOrders'[i] = completedOrders[i]
        /\ Len(incomingOrders') = Len(incomingOrders) + 1
        /\ incomingOrders'[Len(incomingOrders')] = completedOrders[Len(completedOrders)]
        /\ incomingOrders'[Len(incomingOrders')] =
               allOrders[completedOrders[Len(completedOrders)].id]
        /\ \A i \in 1..Len(incomingOrders) : incomingOrders'[i] = incomingOrders[i]
        /\ UNCHANGED <<allOrders, nextOrderId, deliveryGraph>>

C6_RevertLastMovesTopToBack == [][C6_Step]_vars

\* revertLastDelivery has moved the top of the stack behind an order that was waiting.
C6_Witness ==
    /\ out.msg = "Reverted delivery"
    /\ prev.incomingOrders # <<>>
    /\ Len(incomingOrders) = Len(prev.incomingOrders) + 1

(***************************************************************************)
(* C7.  When processNextOrder has just delivered an order, so that prev is *)
(* the queue and the stack it found, and revertLastDelivery runs next, the *)
(* stack is again the stack of prev and the queue is the queue of prev     *)
(* with its front order moved to the back: the same length, the same       *)
(* orders with their ids and fields, the others in the same order.         *)
(***************************************************************************)
C7_Step ==
    (out.msg = "delivered successfully" /\ RevertLastDelivery) =>
        /\ completedOrders' = prev.completedOrders
        /\ Len(incomingOrders') = Len(prev.incomingOrders)
        /\ incomingOrders'[Len(incomingOrders')] = prev.incomingOrders[1]
        /\ \A i \in 1..(Len(incomingOrders') - 1) : incomingOrders'[i] = prev.incomingOrders[i + 1]
        /\ Range(incomingOrders') = Range(prev.incomingOrders)

C7_ProcessThenRevert == [][C7_Step]_vars

\* processNextOrder has just delivered the front of a queue of two orders, and
\* revertLastDelivery is the next command.
C7_Witness ==
    /\ out.msg = "delivered successfully"
    /\ Len(prev.incomingOrders) = 2
    /\ Len(completedOrders) = Len(prev.completedOrders) + 1
    /\ ENABLED RevertLastDelivery

(***************************************************************************)
(* C8.  A placeOrder whose restaurant or destination is not a location of  *)
(* the graph writes its error and changes nothing: the queue, the stack,   *)
(* the index, nextOrderId and the graph, its set of locations included,    *)
(* are as before.                                                          *)
(***************************************************************************)
C8_Step ==
    \A order \in Names \X Names, price \in Prices :
        (/\ ~(order[1] \in DOMAIN deliveryGraph /\ order[2] \in DOMAIN deliveryGraph)
         /\ PlaceOrder(order[1], order[2], price)) =>
            /\ out'.msg = "Error: Restaurant or destination location does not exist in the map."
            /\ UNCHANGED system
            /\ DOMAIN deliveryGraph' = DOMAIN deliveryGraph

C8_RefusedOrderChangesNothing == [][C8_Step]_vars

\* placeOrder has been refused in a system that holds an order and a route.
C8_Witness ==
    /\ out.msg = "Error: Restaurant or destination location does not exist in the map."
    /\ Placed >= 1
    /\ \E a \in DOMAIN deliveryGraph : deliveryGraph[a] # EmptyMap

(***************************************************************************)
(* C9.  processNextOrder on an empty queue, and trackLastDelivery and      *)
(* revertLastDelivery on an empty stack, write their "nothing there"       *)
(* message and leave the queue, the stack, the index, nextOrderId and the  *)
(* graph unchanged.                                                        *)
(***************************************************************************)
C9_Step ==
    /\ (incomingOrders = <<>> /\ ProcessNextOrder) =>
           out'.msg = "No pending orders in the queue." /\ UNCHANGED system
    /\ (completedOrders = <<>> /\ TrackLastDelivery) =>
           out'.msg = "No deliveries completed yet." /\ UNCHANGED system
    /\ (completedOrders = <<>> /\ RevertLastDelivery) =>
           out'.msg = "No completed deliveries to revert." /\ UNCHANGED system

C9_EmptyCollectionChangesNothing == [][C9_Step]_vars

\* processNextOrder has found the queue empty after every order was delivered.
C9_Witness ==
    /\ out.msg = "No pending orders in the queue."
    /\ Len(completedOrders) = 2

(***************************************************************************)
(* C10.  An addRoute whose start or end is not a location of the graph     *)
(* writes its error and changes nothing: no route is added in either       *)
(* direction, no distance changes, the missing end does not become a       *)
(* location, and the orders are as before.                                 *)
(***************************************************************************)
C10_Step ==
    \A route \in Names \X Names, distance \in Distances :
        (/\ ~(route[1] \in DOMAIN deliveryGraph /\ route[2] \in DOMAIN deliveryGraph)
         /\ AddRoute(route[1], route[2], distance)) =>
            /\ out'.msg = "Error: One or both locations do not exist. Add them first."
            /\ deliveryGraph' = deliveryGraph
            /\ DOMAIN deliveryGraph' = DOMAIN deliveryGraph
            /\ UNCHANGED <<incomingOrders, completedOrders, allOrders, nextOrderId>>

C10_RefusedRouteChangesNothing == [][C10_Step]_vars

\* addRoute has been refused in a graph that already holds a route.
C10_Witness ==
    /\ out.msg = "Error: One or both locations do not exist. Add them first."
    /\ \E a \in DOMAIN deliveryGraph : deliveryGraph[a] # EmptyMap

\* The route from a to b is stored, with the distance it is stored with.
HasRoute(graph, a, b) == a \in DOMAIN graph /\ b \in DOMAIN graph[a]

\* The routes of the graph as triples <<from, to, distance>>.
Routes(graph) == UNION {{<<a, b, graph[a][b]>> : b \in DOMAIN graph[a]} : a \in DOMAIN graph}

(***************************************************************************)
(* C11.  The graph is undirected: whenever b is a neighbour of a, b is a   *)
(* location, a is a neighbour of b, and the two stored distances are       *)
(* equal.  The last write wins: an addRoute that is accepted stores its    *)
(* distance in both directions and leaves every other route as it was,     *)
(* and no other step changes a route; so right after "Route added" both    *)
(* directions hold the distance just typed.                                *)
(***************************************************************************)
C11_Now ==
    /\ \A a \in DOMAIN deliveryGraph : \A b \in DOMAIN deliveryGraph[a] :
           /\ b \in DOMAIN deliveryGraph
           /\ a \in DOMAIN deliveryGraph[b]
           /\ deliveryGraph[b][a] = deliveryGraph[a][b]
    /\ out.msg = "Route added" =>
           /\ HasRoute(deliveryGraph, out.start, out.end)
           /\ deliveryGraph[out.start][out.end] = out.distance
           /\ deliveryGraph[out.end][out.start] = out.distance

C11_Step ==
    IF out'.msg = "Route added" /\ AddRoute(out'.start, out'.end, out'.distance)
    THEN \A r \in Routes(deliveryGraph) \cup Routes(deliveryGraph') :
             {r[1], r[2]} # {out'.start, out'.end} =>
                 r \in Routes(deliveryGraph) /\ r \in Routes(deliveryGraph')
    ELSE Routes(deliveryGraph') = Routes(deliveryGraph)

C11_UndirectedLastWriteWins == []C11_Now /\ [][C11_Step]_vars

\* addRoute has stored the route A-B next to the route Depot-A.
C11_Witness ==
    /\ out.msg = "Route added"
    /\ out.start = "A" /\ out.end = "B" /\ out.distance = 2
    /\ HasRoute(deliveryGraph, depot, "A")
    /\ deliveryGraph["B"]["A"] = 2

(***************************************************************************)
(* C12.  Every route stored in the graph has a distance of 0 or more.      *)
(***************************************************************************)
C12_NonNegativeDistances ==
    \A a \in DOMAIN deliveryGraph : \A b \in DOMAIN deliveryGraph[a] : deliveryGraph[a][b] >= 0

(***************************************************************************)
(* C13.  An addLocation of a name that is not a location adds it with no   *)
(* neighbours and leaves the other locations, their routes and the orders  *)
(* as they are.  An addLocation of a name that is a location changes       *)
(* nothing: the graph, the routes of that location included, is as before. *)
(***************************************************************************)
C13_Step ==
    \A name \in Names :
        AddLocation(name) =>
            /\ IF name \in DOMAIN deliveryGraph
               THEN /\ deliveryGraph' = deliveryGraph
                    /\ out'.msg = "Location already exists"
               ELSE /\ DOMAIN deliveryGraph' = DOMAIN deliveryGraph \cup {name}
                    /\ DOMAIN deliveryGraph'[name] = {}
                    /\ \A a \in DOMAIN deliveryGraph : deliveryGraph'[a] = deliveryGraph[a]
                    /\ out'.msg = "Location added"
            /\ UNCHANGED <<incomingOrders, completedOrders, allOrders, nextOrderId>>

C13_AddLocation == [][C13_Step]_vars

\* addLocation has been called for a location that has a route.
C13_Witness ==
    /\ out.msg = "Location already exists"
    /\ deliveryGraph[out.name] # EmptyMap

\* No route of the graph has a negative distance.
NonNegative == \A r \in Routes(deliveryGraph) : r[3] >= 0

\* The sequences of locations that go from start to end along routes, a location
\* possibly more than once, of at most one location more than the map has.
Walks(start, end) ==
    {p \in UNION {[1..n -> DOMAIN deliveryGraph] : n \in 2..(Cardinality(DOMAIN deliveryGraph) + 1)} :
        /\ p[1] = start
        /\ p[Len(p)] = end
        /\ \A i \in 1..(Len(p) - 1) : HasRoute(deliveryGraph, p[i], p[i + 1])}

RECURSIVE Weight(_)
Weight(p) == IF Len(p) < 2 THEN 0 ELSE deliveryGraph[p[1]][p[2]] + Weight(Tail(p))

C15_SymmetricDistance ==
    \A a \in DOMAIN deliveryGraph, b \in DOMAIN deliveryGraph :
        LET forth == FindShortestPath(a, b)
            back == FindShortestPath(b, a)
        IN /\ forth.returns
           /\ back.returns
           /\ CalculatePathDistance(forth.path) = CalculatePathDistance(back.path)

\* path goes from a to b along routes of the graph and no walk from a to b is shorter.
IsShortestPath(path, a, b) ==
    /\ Len(path) >= 1
    /\ path[1] = a
    /\ path[Len(path)] = b
    /\ \A i \in 1..(Len(path) - 1) : HasRoute(deliveryGraph, path[i], path[i + 1])
    /\ \A p \in Walks(a, b) : Weight(path) <= Weight(p)

(***************************************************************************)
(* C16.  optimizeDeliveryRoute called with the id of an order of the       *)
(* index, pending or completed, finds the order; when the restaurant is    *)
(* reachable from Depot and the destination from the restaurant, it        *)
(* reports leg 1 as a shortest path from Depot to the restaurant with its  *)
(* distance, leg 2 as a shortest path from the restaurant to the           *)
(* destination with its distance, and the sum of the two as the total.     *)
(* Called with an id that no order has, it reports that the order is not   *)
(* found.                                                                  *)
(***************************************************************************)
C16_Step ==
    \A orderId \in OrderIdInputs :
        OptimizeDeliveryRoute(orderId) =>
            IF orderId \in DOMAIN allOrders
            THEN LET order == allOrders[orderId]
                 IN /\ out'.msg # "Order ID not found"
                    /\ (Reachable(depot, order.restaurant)
                            /\ Reachable(order.restaurant, order.destination)) =>
                           /\ out'.msg = "Route Optimization"
                           /\ out'.id = orderId
                           /\ IsShortestPath(out'.path1, depot, order.restaurant)
                           /\ out'.line1 = [text |-> "km", km |-> Weight(out'.path1)]
                           /\ IsShortestPath(out'.path2, order.restaurant, order.destination)
                           /\ out'.line2 = [text |-> "km", km |-> Weight(out'.path2)]
                           /\ out'.total = [text |-> "km",
                                            km |-> Weight(out'.path1) + Weight(out'.path2)]
            ELSE out'.msg = "Order ID not found"

C16_OptimizeReportsShortestLegs == [][C16_Step]_vars

\* Every first line optimizeDeliveryRoute can write, and the call that does not return.
OptimizeMessages ==
    {"Order ID not found", "Error: 'Depot' location is missing for optimization.",
     "Route Optimization", NoReturn}

(***************************************************************************)
(* C17.  listPendingOrders, trackLastDelivery, optimizeDeliveryRoute and   *)
(* systemStatus leave the queue, the stack, the index, nextOrderId and the *)
(* graph as they are, whatever the order id typed in (ids no order has     *)
(* included) and whether or not the legs of the order are reachable.       *)
(***************************************************************************)
C17_Step ==
    (\/ ListPendingOrders
     \/ TrackLastDelivery
     \/ SystemStatus
     \/ /\ out'.msg \in OptimizeMessages
        /\ \E orderId \in OrderIdInputs : OptimizeDeliveryRoute(orderId)) =>
        /\ incomingOrders' = incomingOrders
        /\ completedOrders' = completedOrders
        /\ allOrders' = allOrders
        /\ nextOrderId' = nextOrderId
        /\ deliveryGraph' = deliveryGraph

C17_QueriesChangeNothing == [][C17_Step]_vars

\* A query has answered while orders are pending and completed and B has no route.
C17_Witness ==
    /\ out.msg \in {"Pending Orders Queue", "Last Completed Delivery", "System Status",
                    "Route Optimization", "Order ID not found"}
    /\ incomingOrders # <<>>
    /\ completedOrders # <<>>
    /\ \E id \in DOMAIN allOrders : ~Reachable(allOrders[id].restaurant, allOrders[id].destination)

(***************************************************************************)
(* C18.  Every order of the index occurs exactly once in the queue         *)
(* followed by the stack, and every order found there is an order of the   *)
(* index; the number of pending orders plus the number of completed        *)
(* orders is the size of the index, which is nextOrderId - 1001.           *)
(***************************************************************************)
C18_EveryOrderPendingOrCompleted ==
    LET held == incomingOrders \o completedOrders
    IN /\ \A id \in DOMAIN allOrders :
              Cardinality({i \in 1..Len(held) : held[i] = allOrders[id]}) = 1
       /\ \A i \in 1..Len(held) :
              held[i].id \in DOMAIN allOrders /\ held[i] = allOrders[held[i].id]
       /\ Len(incomingOrders) + Len(completedOrders) = Cardinality(DOMAIN allOrders)
       /\ Cardinality(DOMAIN allOrders) = nextOrderId - FirstOrderId

\* An order has been processed and reverted while another one is on the stack.
C18_Witness ==
    /\ out.msg = "Reverted delivery"
    /\ incomingOrders # <<>>
    /\ completedOrders # <<>>

(***************************************************************************)
(* C19.  For all locations start and end the search terminates: the        *)
(* frontier loop ends with an empty frontier, having visited exactly the   *)
(* locations reachable from start, and the walk back over the              *)
(* predecessors ends, so that findShortestPath returns.                    *)
(***************************************************************************)
C19_SearchTerminates ==
    \A start \in DOMAIN deliveryGraph, end \in DOMAIN deliveryGraph :
        LET st == Search(start)
        IN /\ st.pq = {}
           /\ st.visited = Closure({start})
           /\ FindShortestPath(start, end).returns

(***************************************************************************)
(* C20.  A location, once added, stays: no step removes one.  Depot is a   *)
(* location in every state, the restaurant and the destination of every    *)
(* order of the index are locations in every state, and                    *)
(* optimizeDeliveryRoute never reports that Depot is missing.              *)
(***************************************************************************)
C20_Now ==
    /\ depot \in DOMAIN deliveryGraph
    /\ \A id \in DOMAIN allOrders :
           /\ allOrders[id].restaurant \in DOMAIN deliveryGraph
           /\ allOrders[id].destination \in DOMAIN deliveryGraph
    /\ out.msg # "Error: 'Depot' location is missing for optimization."

C20_Step == DOMAIN deliveryGraph \subseteq DOMAIN deliveryGraph'

C20_LocationsStay == []C20_Now /\ [][C20_Step]_vars

\* optimizeDeliveryRoute has reported on an order between two locations added after Depot.
C20_Witness ==
    /\ Optimized
    /\ allOrders[out.id].restaurant = "A"
    /\ allOrders[out.id].destination = "B"
    /\ DOMAIN deliveryGraph = Names

====
